---- MODULE Spec2Model ----
(***************************************************************************)
(* hypnofrog: the trial evaluator (trial), the process invoker (invoke),   *)
(* the failure taxonomy (FailedCase and its subclasses) and the run loop   *)
(* (run, whose test_function is driven by hypothesis.given).               *)
(*                                                                         *)
(* Texts (input cases, program outputs, captured error streams) are model  *)
(* strings.  An optional path is a string or NoPath; the optional memory   *)
(* limit is <<>> (None) or <<megabytes>>.  Time is counted in ticks of the *)
(* monotonic clock.                                                        *)
(***************************************************************************)
EXTENDS Integers, Sequences, FiniteSets, TLC

\* ------------------------------------------------------------------ bounds
\* The case budget; line 159 sets max_examples=1000000, bounded here.
MaxExamples == 2
\* Test executions the driver spends on reducing a failing case.
MaxShrinks == 1
\* Longest duration of one child process, in clock ticks.
MaxDur == 1
\* capture_stdout scopes a program opens, and lines it prints.
MaxScopes == 2
MaxPrints == 2

\* ------------------------------------------------------------------ values
\* The --mem-limit value of test_trial_mem_limit, in MB.
MemLimit == 64

NoPath == "None"
NoLimit == <<>>

\* Readings of the monotonic clock on entry to a trial (its origin is arbitrary).
EntryTimes == {0, 1}

Inputs == {"", "crash\n"}
Outputs == {"", "1\nhello world\n"}
Errs == {"", "I crash\n"}
\* Peak address-space need of a child process, in bytes.
Peaks == {1048576, 134217728}

EmptyMap == [x \in {} |-> ""]

\* What a child process does when left alone: whether it can be started at
\* all, its exit status, what it writes to its two streams, whether that is
\* valid UTF-8, and how much address space it needs.  A child that exits
\* non-zero writes its diagnostics to standard error.
Behaviours ==
    [starts : {FALSE}, exit : {1}, stdout : {""}, stderr : {""},
     decodable : {TRUE}, peak : {1048576}]
    \cup
    [starts : {TRUE}, exit : {0}, stdout : Outputs, stderr : Errs,
     decodable : BOOLEAN, peak : Peaks]
    \cup
    [starts : {TRUE}, exit : {1}, stdout : {""}, stderr : Errs,
     decodable : BOOLEAN, peak : Peaks]

Configurations ==
    [target : {"passthrough"},
     reference : {NoPath, "helloworld"},
     checker : {NoPath, "check_same"},
     mem_limit : {NoLimit, <<MemLimit>>}]

\* --------------------------------------------------------- failure taxonomy
FailedCaseKinds ==
    {"FailedCase", "BadAnswer", "AnswerMismatch", "CrashError",
     "BadReferenceError", "FailedCheckerError"}

\* FailedCase that does not log the input.
FailedCase_NoInputLog(message, input) ==
    [kind |-> "FailedCase",
     message |-> message,
     files |-> ("hypnofrog.in" :> input),
     logs |-> EmptyMap]

FailedCase(message, input) ==
    [kind |-> "FailedCase",
     message |-> message,
     files |-> ("hypnofrog.in" :> input),
     logs |-> ("input" :> input)]

BadAnswer(message, input, output) ==
    LET base == FailedCase(message, input)
    IN  [base EXCEPT !.kind = "BadAnswer",
                     !.files = ("hypnofrog.out" :> output) @@ base.files]

\* AnswerMismatch that forgets the reference artifact.
AnswerMismatch_NoRef(input, output, reference) ==
    [BadAnswer(<<"Answer does not match the reference">>, input, output)
        EXCEPT !.kind = "AnswerMismatch"]

AnswerMismatch(input, output, reference) ==
    LET base == BadAnswer(<<"Answer does not match the reference">>, input, output)
    IN  [base EXCEPT !.kind = "AnswerMismatch",
                     !.files = ("hypnofrog.ref" :> reference) @@ base.files]

\* hasattr(error, name): the attributes of the error objects of invoke.
HasAttr(error, name) == name \in DOMAIN error

\* CrashError that drops the captured standard error.
CrashError_NoStderr(input, error) ==
    [FailedCase(<<"Target crashed: ", error.type>>, input) EXCEPT !.kind = "CrashError"]

CrashError(input, error) ==
    LET base == FailedCase(<<"Target crashed: ", error.type>>, input)
    IN  [base EXCEPT !.kind = "CrashError",
                     !.logs = IF HasAttr(error, "stderr")
                              THEN ("stderr" :> error.stderr) @@ base.logs
                              ELSE base.logs]

\* A reference failure reported with the target's kind.
BadReferenceError_AsCrash(input, error) ==
    [FailedCase(<<"Target crashed: ", error.type>>, input)
        EXCEPT !.kind = "CrashError",
               !.logs = IF "stderr" \in DOMAIN error
                        THEN ("stderr" :> error.stderr) @@ @
                        ELSE @]

BadReferenceError(input, error) ==
    LET base == FailedCase(<<"Reference crashed: ", error.type>>, input)
    IN  [base EXCEPT !.kind = "BadReferenceError",
                     !.logs = IF HasAttr(error, "stderr")
                              THEN ("stderr" :> error.stderr) @@ base.logs
                              ELSE base.logs]

\* FailedCheckerError that logs the error's stderr, which is None.
FailedCheckerError_Stderr(input, output, error) ==
    LET base == BadAnswer(<<"Checker failed: ", error.type>>, input, output)
    IN  [base EXCEPT !.kind = "FailedCheckerError",
                     !.logs = IF "stderr" \in DOMAIN error
                              THEN ("stderr" :> error.stderr) @@ base.logs
                              ELSE base.logs]

FailedCheckerError(input, output, error) ==
    LET base == BadAnswer(<<"Checker failed: ", error.type>>, input, output)
    IN  [base EXCEPT !.kind = "FailedCheckerError",
                     !.logs = IF HasAttr(error, "stdout")
                              THEN ("stderr" :> error.stdout) @@ base.logs
                              ELSE base.logs]

\* ------------------------------------------------------------ process invoker
\* preexec: RLIMIT_AS in bytes; no limit when mem_limit is None.
WithinLimit(b, mem_limit) ==
    mem_limit = NoLimit \/ b.peak <= mem_limit[1] * 1024 * 1024

\* subprocess.run(..., encoding='utf-8', check=True) as invoke calls it: the
\* spawn fails with OSError; the captured streams are decoded when the child
\* has exited; a non-zero status (also the one of a child that ran out of
\* address space) raises CalledProcessError carrying both streams.
invoke(b, mem_limit) ==
    IF ~b.starts THEN [type |-> "OSError"]
    ELSE IF ~b.decodable THEN [type |-> "UnicodeDecodeError"]
    ELSE IF b.exit # 0 \/ ~WithinLimit(b, mem_limit)
         THEN [type |-> "CalledProcessError", stdout |-> b.stdout, stderr |-> b.stderr]
         ELSE [type |-> "ok", stdout |-> b.stdout]

\* stderr=subprocess.STDOUT: the child's two streams share one pipe.
Merged(b) == b.stdout \o b.stderr

\* subprocess.run as line 141 calls it: the harness captures the merged
\* stream as stdout, and the error's stderr is None.  The result of an
\* accepting checker is bound by line 141 and never read.
run_checker(b) ==
    IF ~b.starts THEN [type |-> "OSError"]
    ELSE IF ~b.decodable THEN [type |-> "UnicodeDecodeError"]
    ELSE IF b.exit # 0
         THEN [type |-> "CalledProcessError", stdout |-> Merged(b), stderr |-> "None"]
         ELSE [type |-> "ok"]

\* except (subprocess.CalledProcessError, OSError)
\* An except clause that leaves out OSError.
IsInvocationError_SpawnUncaught(res) == res.type = "CalledProcessError"

IsInvocationError(res) == res.type \in {"CalledProcessError", "OSError"}

\* What invoke can do, over the behaviours of the child.
InvokeResults(mem_limit) == {invoke(b, mem_limit) : b \in Behaviours}

\* The child fails under mem_limit and for no other reason: left
\* unconstrained, the same child exits 0 with text on its standard output.
LimitHit(b, mem_limit) ==
    invoke(b, NoLimit).type = "ok" /\ invoke(b, mem_limit).type # "ok"

\* invoke's result together with whether the limit caused it.
Outcomes(mem_limit) ==
    {[res |-> invoke(b, mem_limit), limit_hit |-> LimitHit(b, mem_limit)] :
        b \in Behaviours}

\* line 128 passes no mem_limit, and the parameter defaults to None.
\* A reference that inherits the target's limit.
ReferenceLimit_Shared(a) == a.mem_limit

ReferenceLimit(a) == NoLimit

CheckerResults == {run_checker(b) : b \in Behaviours}


\* ---------------------------------------------------------------- state
VARIABLES
    args,          \* the trial configuration (argparse namespace)
    pc,            \* run: "test" (inside test_function()), "handler", "write", "done", "crashed"
    phase,         \* given: "generate", "shrink", "replay"
    calls,         \* given: cases drawn from the strategy so far
    shrinks,       \* given: test executions spent on reducing
    falsifying,    \* given: the falsifying case and its origin (a set of at most one)
    distinct,      \* given: a failure of another origin was seen
    flaky,         \* given: the final run did not reproduce the failure
    tpc,           \* trial: "idle", "target", "reference", "checker", "checking"
    input,         \* trial: the input case
    start,         \* trial: time.monotonic() before the target
    end,           \* trial: time.monotonic() after the target (-1: not yet bound)
    now,           \* the monotonic clock
    actual,        \* trial: the target's output
    expected,      \* trial: the reference's output
    ran,           \* trial: the child processes run so far, in order
    tempfiles,     \* the checker's temporary files that exist
    verdict,       \* how the last trial ended
    done,          \* run: nonlocal done
    max_elapsed,   \* run: nonlocal max_elapsed
    progress,      \* the progress line on the terminal
    printed,       \* the report lines printed by run's handler
    cwd,           \* the files run wrote to the working directory
    status,        \* run's return value (a set of at most one)
    exc,           \* run: the exception bound by line 173 (a set of at most one)
    sys_stdout,    \* sys.stdout: the sink print writes to
    scopes,        \* capture_stdout: the suspended generators, innermost last
    created,       \* capture_stdout: the StringIO objects made so far
    received,      \* the texts each sink received
    unwinding      \* an exception is propagating

engineVars == <<phase, calls, shrinks, falsifying, distinct, flaky>>
trialVars == <<tpc, input, start, end, now, actual, expected, ran, tempfiles, verdict>>
statVars == <<done, max_elapsed, progress>>
runVars == <<args, pc, printed, cwd, status, exc>>
captureVars == <<sys_stdout, scopes, created, received, unwinding>>
vars == <<engineVars, trialVars, statVars, runVars, captureVars>>

\* The sink sys.stdout names when the program starts; the n-th StringIO
\* that capture_stdout makes is the sink n.
RealStdout == 0

Sinks == 0..MaxScopes

\* No capture_stdout scope is or was open.
CaptureIdle ==
    /\ sys_stdout = RealStdout
    /\ scopes = <<>> /\ created = 0
    /\ received = [k \in Sinks |-> <<>>]
    /\ unwinding = FALSE

Unset == "unset"
NoVerdict == [type |-> "none"]

\* run, lines 167-170: the counters are bound and args is given; the next
\* statement is the call of test_function().
Init ==
    /\ args \in Configurations
    /\ pc = "test"
    /\ phase = "generate" /\ calls = 0 /\ shrinks = 0
    /\ falsifying = {} /\ distinct = FALSE
    /\ flaky = FALSE
    /\ tpc = "idle" /\ input = Unset /\ start = -1 /\ end = -1 /\ now = -1
    /\ actual = Unset /\ expected = Unset /\ ran = <<>>
    /\ tempfiles = {} /\ verdict = NoVerdict
    /\ done = 0 /\ max_elapsed = 0 /\ progress = <<>>
    /\ printed = <<>> /\ cwd = EmptyMap /\ status = {} /\ exc = {}
    /\ CaptureIdle

\* ------------------------------------------------------ given: bookkeeping
\* Failures are told apart by their origin, the class of the exception.
Origin(e) == e.kind

Falsifying == CHOOSE f \in falsifying : TRUE

\* The test execution returned.
EnginePass ==
    /\ flaky' = (flaky \/ phase = "replay")
    /\ UNCHANGED <<phase, falsifying, distinct>>

\* The test execution raised e.  The first failure ends the generation of
\* new cases; a later failure of the same origin may become the falsifying
\* case, one of another origin is a distinct failure; the final run must
\* fail with the origin of the falsifying case.
EngineFail(e) ==
    CASE phase = "generate" ->
            /\ falsifying' = {[origin |-> Origin(e), case |-> input]}
            /\ phase' = "shrink"
            /\ UNCHANGED <<distinct, flaky>>
      [] phase = "shrink" ->
            /\ IF Origin(e) = Falsifying.origin
               THEN /\ \E keep \in BOOLEAN :
                         falsifying' = IF keep THEN falsifying
                                       ELSE {[origin |-> Origin(e), case |-> input]}
                    /\ UNCHANGED distinct
               ELSE /\ distinct' = TRUE
                    /\ UNCHANGED falsifying
            /\ UNCHANGED <<phase, flaky>>
      [] phase = "replay" ->
            /\ flaky' = (flaky \/ Origin(e) # Falsifying.origin)
            /\ UNCHANGED <<phase, falsifying, distinct>>

\* ------------------------------------------------------------------ trial
\* except FailedCase: raise / except Exception: raise FailedCase(...)
\* Handlers that let every exception through as it is.
Reraise_PassThrough(raw, inp) == raw

Reraise(raw, inp) ==
    IF raw.kind \in FailedCaseKinds
    THEN raw
    ELSE FailedCase(<<"Unexpected error: ", raw.kind>>, inp)

Elapsed(s, e) == e - s

\* line 154, return end - start.
\* A trial that reads the clock again when it returns.
TrialTime_WholeTrial == Elapsed(start, now)

TrialTime == Elapsed(start, end)

\* line 163, max_elapsed = max(max_elapsed, elapsed).
\* A statistic that keeps the last elapsed time.
NewMax_Last(m, elapsed) == elapsed

NewMax(m, elapsed) == IF elapsed > m THEN elapsed ELSE m

NextAfterReference == IF args.checker # NoPath THEN "checker" ELSE "return"

\* The checker step placed before the reference step.
NextAfterTarget_CheckerFirst ==
    IF args.checker # NoPath THEN "checker"
    ELSE IF args.reference # NoPath THEN "reference" ELSE "return"

\* The reference step without its guard.
NextAfterTarget_Unguarded == "reference"

NextAfterTarget == IF args.reference # NoPath THEN "reference" ELSE NextAfterReference

\* line 120 and the call of test_function(data) that leads to it.  The
\* clock is read relative to an arbitrary origin.
BeginTrial(i) ==
    /\ input' = i
    /\ \E t \in EntryTimes : now' = t /\ start' = t
    /\ end' = -1 /\ actual' = Unset /\ expected' = Unset /\ ran' = <<>>
    /\ verdict' = NoVerdict
    /\ tpc' = "target"
    /\ UNCHANGED <<tempfiles, statVars, runVars>>
    /\ UNCHANGED captureVars

\* trial's locals end with the call; outside a trial the clock is not read.
LeaveTrial ==
    /\ tpc' = "idle"
    /\ start' = -1 /\ end' = -1 /\ now' = -1
    /\ actual' = Unset /\ expected' = Unset

\* line 154, return end - start, then test_function's lines 163-165.
Returns(elapsed) ==
    /\ LeaveTrial
    /\ verdict' = [type |-> "returned", elapsed |-> elapsed]
    /\ max_elapsed' = NewMax(max_elapsed, elapsed)
    /\ done' = done + 1
    /\ progress' = <<done', max_elapsed'>>
    /\ EnginePass

\* raw is raised inside the try of line 119 and leaves trial through the
\* handlers of lines 150-153, then test_function.
Raises(raw) ==
    /\ LeaveTrial
    /\ verdict' = [type |-> "raised", raw |-> raw, exc |-> Reraise(raw, input)]
    /\ EngineFail(Reraise(raw, input))
    /\ UNCHANGED statVars

Continues(next) ==
    /\ tpc' = next
    /\ UNCHANGED <<verdict, statVars, phase, falsifying, distinct, flaky>>

\* lines 121-125
InvokeTarget ==
    /\ pc = "test" /\ tpc = "target"
    /\ UNCHANGED <<input, tempfiles, runVars, calls, shrinks, captureVars>>
    /\ \E o \in Outcomes(args.mem_limit), d \in 0..MaxDur :
         LET res == o.res IN
             /\ ran' = Append(ran, [prog |-> "target", mem_limit |-> args.mem_limit,
                                    limit_hit |-> o.limit_hit, res |-> res])
             /\ IF res.type # "ok"
                THEN Raises(IF IsInvocationError(res)
                            THEN CrashError(input, res)
                            ELSE [kind |-> res.type])
                ELSE IF NextAfterTarget = "return"
                THEN Returns(Elapsed(start, now + d))
                ELSE /\ actual' = res.stdout
                     /\ now' = now + d
                     /\ end' = now + d
                     /\ UNCHANGED <<start, expected>>
                     /\ Continues(NextAfterTarget)

\* lines 126-132
InvokeReference ==
    /\ pc = "test" /\ tpc = "reference"
    /\ UNCHANGED <<input, tempfiles, runVars, calls, shrinks, captureVars>>
    /\ \E o \in Outcomes(ReferenceLimit(args)), d \in 0..MaxDur :
         LET res == o.res IN
             /\ ran' = Append(ran, [prog |-> "reference",
                                    mem_limit |-> ReferenceLimit(args),
                                    limit_hit |-> o.limit_hit, res |-> res])
             /\ IF res.type # "ok"
                THEN Raises(IF IsInvocationError(res)
                            THEN BadReferenceError(input, res)
                            ELSE [kind |-> res.type])
                ELSE IF res.stdout # actual
                THEN Raises(AnswerMismatch(input, actual, res.stdout))
                ELSE IF NextAfterReference = "return"
                THEN Returns(TrialTime)
                ELSE /\ expected' = res.stdout
                     /\ now' = now + d
                     /\ UNCHANGED <<start, end, actual>>
                     /\ Continues(NextAfterReference)

\* lines 134-135: leaving the with statement, on any path, closes the two
\* NamedTemporaryFile objects, and closing one deletes its file.
\* Files made with delete=False.
WithExit_Leak(files) == files

WithExit(files) == {}

\* The files of lines 134-139, in the order of their creation.
InFile == [suffix |-> ".in", content |-> input]

OutFile == [suffix |-> ".out", content |-> actual]

\* lines 133-139: the two named temporary files are created and written; a
\* failure to do so, with none, one or both of them created, is an OSError
\* outside the inner try.
WriteTemp ==
    /\ pc = "test" /\ tpc = "checker"
    /\ UNCHANGED <<input, ran, runVars, calls, shrinks, captureVars>>
    /\ \E written \in BOOLEAN :
         IF written
         THEN /\ tempfiles' = {InFile, OutFile}
              /\ UNCHANGED <<start, end, now, actual, expected>>
              /\ Continues("checking")
         ELSE /\ \E made \in {{}, {InFile}, {InFile, OutFile}} :
                    tempfiles' = WithExit(made)
              /\ Raises([kind |-> "OSError"])

\* lines 140-149, and the exit of the with statement of line 134.
InvokeChecker ==
    /\ pc = "test" /\ tpc = "checking"
    /\ UNCHANGED <<input, runVars, calls, shrinks, captureVars>>
    /\ tempfiles' = WithExit(tempfiles)
    /\ \E res \in CheckerResults :
             /\ ran' = Append(ran, [prog |-> "checker", mem_limit |-> NoLimit,
                                    limit_hit |-> FALSE,
                                    argv |-> <<".in", ".out">>, res |-> res])
             /\ IF res.type # "ok"
                THEN Raises(IF IsInvocationError(res)
                            THEN FailedCheckerError(input, actual, res)
                            ELSE [kind |-> res.type])
                ELSE Returns(TrialTime)

\* ------------------------------------------------- given: driving the test
\* A loop that goes on drawing cases once the failure is in run's handler.
Generate_AfterCatch ==
    /\ pc \in {"test", "handler"} /\ tpc = "idle"
    /\ calls < MaxExamples
    /\ \E i \in Inputs : BeginTrial(i)
    /\ calls' = calls + 1
    /\ UNCHANGED <<phase, shrinks, falsifying, distinct, flaky>>

\* @given(strategy): a new case is drawn while none has failed and the case
\* budget lasts.
Generate ==
    /\ pc = "test" /\ tpc = "idle"
    /\ phase = "generate" /\ calls < MaxExamples
    /\ \E i \in Inputs : BeginTrial(i)
    /\ calls' = calls + 1
    /\ UNCHANGED <<phase, shrinks, falsifying, distinct, flaky>>

\* After a failure the driver runs the test on further cases, looking for a
\* simpler falsifying case (the shrink phase is not disabled by line 159).
ShrinkCase ==
    /\ pc = "test" /\ tpc = "idle"
    /\ phase = "shrink" /\ shrinks < MaxShrinks
    /\ \E i \in Inputs : BeginTrial(i)
    /\ shrinks' = shrinks + 1
    /\ UNCHANGED <<phase, calls, falsifying, distinct, flaky>>

\* The falsifying case is run a last time; the exception of that run is the
\* one the driver raises.
ReplayCase ==
    /\ pc = "test" /\ tpc = "idle"
    /\ phase = "shrink" /\ ~distinct
    /\ BeginTrial(Falsifying.case)
    /\ phase' = "replay"
    /\ UNCHANGED <<calls, shrinks, falsifying, distinct, flaky>>

\* ------------------------------------------------------------------- run
\* lines 172, 189-190: test_function() returns when the strategy or the case
\* budget is exhausted and no case failed.
Exhausted ==
    /\ pc = "test" /\ tpc = "idle"
    /\ phase = "generate" /\ calls >= 1
    /\ pc' = "done"
    /\ status' = {0}
    /\ UNCHANGED <<args, printed, cwd, exc, engineVars, trialVars, statVars, captureVars>>

\* line 173, except FailedCase as exc: the final run reproduced the failure
\* and given re-raises its exception, that of the last test execution.
Caught ==
    /\ pc = "test" /\ tpc = "idle"
    /\ phase = "replay" /\ ~flaky
    /\ exc' = {verdict.exc}
    /\ pc' = "handler"
    /\ UNCHANGED <<args, printed, cwd, status, engineVars, trialVars, statVars, captureVars>>

\* Failures of several origins, or a final run that did not reproduce the
\* failure: given raises an error of its own (MultipleFailures, Flaky), which
\* is no FailedCase and leaves run uncaught.  With several origins the final
\* runs are left out: the error is raised however they end.
Escapes ==
    /\ pc = "test" /\ tpc = "idle"
    /\ \/ phase = "shrink" /\ distinct
       \/ phase = "replay" /\ flaky
    /\ pc' = "crashed"
    /\ UNCHANGED <<args, printed, cwd, status, exc, engineVars, trialVars, statVars, captureVars>>

\* The exception run's handler holds.
Handled == CHOOSE e \in exc : TRUE

\* str.rstrip() on the texts of the model.
rstrip(t) ==
    CASE t = "crash\n" -> "crash"
      [] t = "I crash\n" -> "I crash"
      [] t = "1\nhello world\n" -> "1\nhello world"
      [] OTHER -> t

\* Insertion order of the keys of exc.logs and exc.files.
LogOrder == <<"input", "stderr">>

FileOrder == <<"hypnofrog.in", "hypnofrog.out", "hypnofrog.ref">>

\* lines 177-182: the log entries with content.
PrintedLogs(e) ==
    LET Shown(name) == name \in DOMAIN e.logs /\ e.logs[name] # ""
        names == SelectSeq(LogOrder, Shown)
    IN  [i \in 1..Len(names) |-> <<"log", names[i], rstrip(e.logs[names[i]])>>]

\* line 184
Inventory(e) ==
    LET Present(name) == name \in DOMAIN e.files
    IN  <<"Writing", SelectSeq(FileOrder, Present)>>

\* lines 174-184
Report ==
    /\ pc = "handler"
    /\ printed' = printed \o <<<<"message", Handled.message>>>>
                          \o PrintedLogs(Handled)
                          \o <<Inventory(Handled)>>
    /\ pc' = "write"
    /\ UNCHANGED <<args, cwd, status, exc, engineVars, trialVars, statVars, captureVars>>

\* lines 185-187: each artifact goes to the file of its name.
\* A handler that writes the input artifact only.
WrittenFiles_InputOnly(e, dir) == ("hypnofrog.in" :> e.files["hypnofrog.in"]) @@ dir

WrittenFiles(e, dir) == e.files @@ dir

\* lines 185-188
WriteFiles ==
    /\ pc = "write"
    /\ cwd' = WrittenFiles(Handled, cwd)
    /\ status' = {1}
    /\ pc' = "done"
    /\ UNCHANGED <<args, printed, exc, engineVars, trialVars, statVars, captureVars>>

Next ==
    \/ Generate
    \/ ShrinkCase
    \/ ReplayCase
    \/ InvokeTarget
    \/ InvokeReference
    \/ WriteTemp
    \/ InvokeChecker
    \/ Exhausted
    \/ Caught
    \/ Escapes
    \/ Report
    \/ WriteFiles

Spec == Init /\ [][Next]_vars

\* run is one thread and every child process terminates: whenever a step is
\* possible, one is taken.
FairSpec == Spec /\ WF_vars(Next)

\* --------------------------------------------------------- capture_stdout
\* What the body of a scope prints.
Prints == {"Hello world\n", "\n"}

runState == <<engineVars, trialVars, statVars, runVars>>

\* lines 69-72, run by the with statement's __enter__ up to the yield.
CaptureEnter ==
    /\ ~unwinding /\ created < MaxScopes
    /\ created' = created + 1
    /\ scopes' = Append(scopes, [out |-> created + 1, real_stdout |-> sys_stdout])
    /\ sys_stdout' = created + 1
    /\ UNCHANGED <<received, unwinding, runState>>

\* The lines printed so far, to the sinks 0..k.
RECURSIVE Printed(_)
Printed(k) == IF k < 0 THEN 0 ELSE Len(received[k]) + Printed(k - 1)

\* print(...) writes to whatever sys.stdout names.
CapturePrint ==
    /\ ~unwinding
    /\ Printed(MaxScopes) < MaxPrints
    /\ \E t \in Prints : received' = [received EXCEPT ![sys_stdout] = Append(@, t)]
    /\ UNCHANGED <<sys_stdout, scopes, created, unwinding, runState>>

\* A statement raises.
BodyRaises ==
    /\ ~unwinding
    /\ unwinding' = TRUE
    /\ UNCHANGED <<sys_stdout, scopes, created, received, runState>>

\* An except clause around the statement catches the exception.
BodyCatches ==
    /\ unwinding
    /\ unwinding' = FALSE
    /\ UNCHANGED <<sys_stdout, scopes, created, received, runState>>

\* The body of the innermost scope completes: __exit__ resumes the
\* generator, which runs line 73 and ends.
CaptureExit ==
    /\ ~unwinding /\ scopes # <<>>
    /\ sys_stdout' = scopes[Len(scopes)].real_stdout
    /\ scopes' = SubSeq(scopes, 1, Len(scopes) - 1)
    /\ UNCHANGED <<created, received, unwinding, runState>>

\* The exception leaves the body of the innermost scope: __exit__ throws it
\* into the generator at the yield of line 72, which no try statement
\* encloses, so the generator ends there and the exception goes on.
CaptureExitRaising ==
    /\ unwinding /\ scopes # <<>>
    /\ scopes' = SubSeq(scopes, 1, Len(scopes) - 1)
    /\ UNCHANGED <<sys_stdout, created, received, unwinding, runState>>

CaptureNext ==
    \/ CaptureEnter
    \/ CapturePrint
    \/ BodyRaises
    \/ BodyCatches
    \/ CaptureExit
    \/ CaptureExitRaising

\* A program that uses capture_stdout, as test_capture_stdout does.
CaptureSpec == Init /\ [][CaptureNext]_vars

\* ------------------------------------------------------------- properties
Raised == verdict.type = "raised"

RaisedKind(k) == Raised /\ verdict.exc.kind = k

\* The i-th child process of the trial was prog and invoke ended as type.
RanAs(i, prog, type) ==
    /\ Len(ran) >= i
    /\ ran[i].prog = prog
    /\ ran[i].res.type = type

TargetOutput == ran[1].res.stdout

\* C1: when the target and the configured reference both exit 0 and their
\* outputs differ, trial raises AnswerMismatch with files exactly
\* {hypnofrog.in: input, hypnofrog.out: target output, hypnofrog.ref:
\* reference output} and logs exactly {input: input}; when the outputs are
\* equal no AnswerMismatch is raised.
C1_AnswerMismatch ==
    (RanAs(1, "target", "ok") /\ RanAs(2, "reference", "ok")) =>
        IF ran[2].res.stdout # TargetOutput
        THEN /\ RaisedKind("AnswerMismatch")
             /\ verdict.exc.files = ("hypnofrog.in" :> input)
                                    @@ ("hypnofrog.out" :> TargetOutput)
                                    @@ ("hypnofrog.ref" :> ran[2].res.stdout)
             /\ verdict.exc.logs = ("input" :> input)
        ELSE ~RaisedKind("AnswerMismatch")

C1_Witness ==
    /\ RanAs(1, "target", "ok") /\ RanAs(2, "reference", "ok")
    /\ TargetOutput = "" /\ ran[2].res.stdout = "1\nhello world\n"
    /\ input = "crash\n"
    /\ RaisedKind("AnswerMismatch")

\* C2: in every configuration a target that exits non-zero or cannot be
\* started makes trial raise CrashError with files exactly {hypnofrog.in:
\* input}, and with a stderr log equal to the captured standard error
\* whenever the process produced any.
C2_TargetCrash ==
    (Len(ran) >= 1 /\ ran[1].prog = "target" /\ IsInvocationError(ran[1].res)) =>
        /\ RaisedKind("CrashError")
        /\ verdict.exc.files = ("hypnofrog.in" :> input)
        /\ (ran[1].res.type = "CalledProcessError" /\ ran[1].res.stderr # "") =>
              /\ "stderr" \in DOMAIN verdict.exc.logs
              /\ verdict.exc.logs["stderr"] = ran[1].res.stderr

C2_Witness ==
    /\ RanAs(1, "target", "CalledProcessError")
    /\ ran[1].res.stderr = "I crash\n"
    /\ args.reference = NoPath /\ args.checker # NoPath
    /\ RaisedKind("CrashError")

\* C3: when the target exits 0 and the configured reference exits non-zero
\* or cannot be started, trial raises BadReferenceError with files exactly
\* {hypnofrog.in: input}; CrashError is raised only when the target's own
\* invocation failed.
C3_ReferenceCrash ==
    /\ (RanAs(1, "target", "ok") /\ Len(ran) >= 2 /\ ran[2].prog = "reference"
            /\ IsInvocationError(ran[2].res)) =>
          /\ RaisedKind("BadReferenceError")
          /\ verdict.exc.files = ("hypnofrog.in" :> input)
    /\ RaisedKind("CrashError") =>
          /\ Len(ran) = 1
          /\ ran[1].prog = "target"
          /\ IsInvocationError(ran[1].res)

C3_Witness ==
    /\ RanAs(1, "target", "ok") /\ RanAs(2, "reference", "OSError")
    /\ RaisedKind("BadReferenceError")

\* C4: when the target exits 0 and the checker is invoked and exits
\* non-zero, trial raises FailedCheckerError with files exactly
\* {hypnofrog.in: input, hypnofrog.out: target output}, never hypnofrog.ref,
\* and with a stderr log equal to the checker's merged output.
C4_CheckerFailure ==
    (RanAs(1, "target", "ok") /\ RanAs(Len(ran), "checker", "CalledProcessError")) =>
        /\ RaisedKind("FailedCheckerError")
        /\ verdict.exc.files = ("hypnofrog.in" :> input)
                               @@ ("hypnofrog.out" :> TargetOutput)
        /\ "hypnofrog.ref" \notin DOMAIN verdict.exc.files
        /\ verdict.exc.logs = ("input" :> input)
                              @@ ("stderr" :> ran[Len(ran)].res.stdout)

C4_Witness ==
    /\ RanAs(1, "target", "ok") /\ RanAs(3, "checker", "CalledProcessError")
    /\ ran[3].res.stdout = "I crash\n"
    /\ TargetOutput = "1\nhello world\n"
    /\ RaisedKind("FailedCheckerError")

\* C5: with neither reference nor checker configured, a target invocation
\* that exits 0 makes trial return an elapsed time without raising, after
\* exactly one program invocation.
C5_SmokeTest ==
    (args.reference = NoPath /\ args.checker = NoPath /\ RanAs(1, "target", "ok")) =>
        /\ tpc = "idle"
        /\ verdict.type = "returned"
        /\ verdict.elapsed \in 0..MaxDur
        /\ Len(ran) = 1

C5_Witness ==
    /\ args.reference = NoPath /\ args.checker = NoPath
    /\ RanAs(1, "target", "ok")
    /\ verdict.type = "returned" /\ verdict.elapsed = 1

\* Some trial of the run raised a failure.
SomeTrialRaised == falsifying # {}

RunEnded == pc \in {"done", "crashed"}

\* C6: run returns 1 if any trial raised a failure and 0 when the cases are
\* exhausted with no failure; every run whose child processes terminate ends
\* with one of these two return values.
C6_RunReturnsStatus ==
    RunEnded => status = IF SomeTrialRaised THEN {1} ELSE {0}

RunFailed == pc = "done" /\ status = {1}

RunClean == pc = "done" /\ status = {0}

\* C8 as stated: a failed run writes hypnofrog.in always, hypnofrog.out
\* whenever the target exited 0, and hypnofrog.ref only for a mismatch; a
\* clean run writes nothing.
C8_OutWheneverTargetOutput ==
    /\ RunFailed =>
          DOMAIN cwd = {"hypnofrog.in"}
                       \cup (IF RanAs(1, "target", "ok") THEN {"hypnofrog.out"} ELSE {})
                       \cup (IF RaisedKind("AnswerMismatch") THEN {"hypnofrog.ref"} ELSE {})
    /\ RunClean => cwd = EmptyMap

\* C8, amended: a failed run writes hypnofrog.in always, hypnofrog.out
\* exactly when the reported failure is an AnswerMismatch or a
\* FailedCheckerError, and hypnofrog.ref exactly for an AnswerMismatch; each
\* file holds the input case, the target's output and the reference's output
\* of the reported trial; a clean run writes nothing.
C8_ArtifactsWritten ==
    /\ RunFailed =>
          /\ DOMAIN cwd = {"hypnofrog.in"}
                 \cup (IF verdict.exc.kind \in {"AnswerMismatch", "FailedCheckerError"}
                       THEN {"hypnofrog.out"} ELSE {})
                 \cup (IF verdict.exc.kind = "AnswerMismatch"
                       THEN {"hypnofrog.ref"} ELSE {})
          /\ cwd["hypnofrog.in"] = input
          /\ "hypnofrog.out" \in DOMAIN cwd => cwd["hypnofrog.out"] = TargetOutput
          /\ "hypnofrog.ref" \in DOMAIN cwd => cwd["hypnofrog.ref"] = ran[2].res.stdout
    /\ RunClean => cwd = EmptyMap

C8_Witness ==
    /\ RunFailed
    /\ RaisedKind("BadReferenceError")
    /\ RanAs(1, "target", "ok")
    /\ DOMAIN cwd = {"hypnofrog.in"}

\* C9: every failure trial raises, of any kind, has files containing
\* hypnofrog.in equal to the input case and logs containing input equal to
\* the same input case.
C9_InputAlwaysAttached ==
    Raised =>
        /\ verdict.exc.kind \in {"CrashError", "BadReferenceError", "AnswerMismatch",
                                 "FailedCheckerError", "FailedCase"}
        /\ "hypnofrog.in" \in DOMAIN verdict.exc.files
        /\ verdict.exc.files["hypnofrog.in"] = input
        /\ "input" \in DOMAIN verdict.exc.logs
        /\ verdict.exc.logs["input"] = input

C9_Witness ==
    /\ RaisedKind("FailedCheckerError")
    /\ input = "crash\n"
    /\ verdict.exc.logs["input"] = "crash\n"

\* C10: an exception raised inside trial that is no taxonomy kind leaves
\* trial as a generic FailedCase with files exactly {hypnofrog.in: input};
\* one that is a taxonomy kind leaves trial unchanged.
C10_NothingUnclassified ==
    Raised =>
        /\ verdict.exc.kind \in FailedCaseKinds
        /\ IF verdict.raw.kind \in FailedCaseKinds
           THEN verdict.exc = verdict.raw
           ELSE /\ verdict.exc.kind = "FailedCase"
                /\ verdict.exc.files = ("hypnofrog.in" :> input)

C10_Witness ==
    /\ Raised
    /\ verdict.raw.kind = "UnicodeDecodeError"
    /\ RanAs(2, "reference", "UnicodeDecodeError")
    /\ verdict.exc.kind = "FailedCase"

\* C11: the configured memory limit reaches the target's invocation and no
\* other: the reference and the checker always run without a limit, with no
\* limit configured no child is constrained, and a target that fails only
\* because it exceeds the limit makes trial raise CrashError, while invoke
\* returns the same child's output when the limit is removed.
C11_MemLimitTargetOnly ==
    /\ \A i \in 1..Len(ran) :
          /\ ran[i].mem_limit = IF ran[i].prog = "target" THEN args.mem_limit
                                                         ELSE NoLimit
          /\ ran[i].limit_hit =>
                /\ i = 1 /\ ran[i].prog = "target"
                /\ args.mem_limit # NoLimit
                /\ ran[i].res.type = "CalledProcessError"
                /\ RaisedKind("CrashError")
    /\ \A b \in Behaviours :
          (b.starts /\ b.decodable /\ b.exit = 0) =>
              /\ invoke(b, NoLimit) = [type |-> "ok", stdout |-> b.stdout]
              /\ b.peak > MemLimit * 1024 * 1024 =>
                    /\ LimitHit(b, <<MemLimit>>)
                    /\ CrashError(input, invoke(b, <<MemLimit>>)).kind = "CrashError"

C11_Witness ==
    /\ args.mem_limit = <<MemLimit>> /\ args.reference # NoPath
    /\ Len(ran) = 1 /\ ran[1].limit_hit
    /\ RaisedKind("CrashError")

\* The last child process of the trial was the checker.
CheckerRan == Len(ran) >= 2 /\ ran[Len(ran)].prog = "checker"

CheckerResult == ran[Len(ran)].res

\* C12 as stated: every way the checker's invocation fails, a non-zero exit or a
\* failure to start it, makes trial raise FailedCheckerError with files
\* exactly {hypnofrog.in: input, hypnofrog.out: target output} and with a
\* stderr log that holds the checker's merged output.
C12_EveryCheckerFailure ==
    (CheckerRan /\ CheckerResult.type \in {"CalledProcessError", "OSError"}) =>
        /\ RaisedKind("FailedCheckerError")
        /\ verdict.exc.files = ("hypnofrog.in" :> input)
                               @@ ("hypnofrog.out" :> TargetOutput)
        /\ "stderr" \in DOMAIN verdict.exc.logs
        /\ HasAttr(CheckerResult, "stdout") =>
              verdict.exc.logs["stderr"] = CheckerResult.stdout

\* C12, amended: a checker whose invocation raises CalledProcessError (it
\* exited non-zero) or OSError (it could not be started) makes trial raise
\* FailedCheckerError with files exactly {hypnofrog.in: input,
\* hypnofrog.out: target output}; the logs hold the input and, for
\* CalledProcessError, a stderr entry equal to the checker's merged output;
\* for OSError there is no stderr entry.
C12_CheckerFailureLogs ==
    (CheckerRan /\ CheckerResult.type \in {"CalledProcessError", "OSError"}) =>
        /\ RaisedKind("FailedCheckerError")
        /\ verdict.exc.files = ("hypnofrog.in" :> input)
                               @@ ("hypnofrog.out" :> TargetOutput)
        /\ verdict.exc.logs =
              IF CheckerResult.type = "CalledProcessError"
              THEN ("input" :> input) @@ ("stderr" :> CheckerResult.stdout)
              ELSE ("input" :> input)

C12_Witness ==
    /\ Len(ran) = 3 /\ CheckerRan
    /\ CheckerResult.type = "OSError"
    /\ TargetOutput = "1\nhello world\n"
    /\ RaisedKind("FailedCheckerError")
    /\ DOMAIN verdict.exc.logs = {"input"}

\* C13: every failure of the target's invocation, a failure to decode its
\* standard output as text included, makes trial raise CrashError with
\* files exactly {hypnofrog.in: input}, never a failure of another kind.
C13_TargetFailureIsCrash ==
    (Len(ran) >= 1 /\ ran[1].prog = "target" /\ ran[1].res.type # "ok") =>
        /\ RaisedKind("CrashError")
        /\ verdict.exc.files = ("hypnofrog.in" :> input)

\* The place of a program in the order of trial's steps.
Rank(prog) ==
    CASE prog = "target" -> 1
      [] prog = "reference" -> 2
      [] prog = "checker" -> 3

\* C14: within one trial the programs run in the order target, reference,
\* checker, each at most once, between 1 and 3 of them once the target's
\* step is over; the reference runs only when configured and after the
\* target returned its output; the checker runs only when configured, after
\* the target returned its output and, with a reference configured, after
\* the reference returned the same output; with both configured a mismatch
\* raises AnswerMismatch after two invocations, the checker not among them.
C14_InvocationOrder ==
    /\ Len(ran) <= 3
    /\ (tpc \notin {"idle", "target"} \/ verdict.type # "none") => Len(ran) >= 1
    /\ \A i \in 1..Len(ran) :
          /\ i = 1 => ran[i].prog = "target"
          /\ i > 1 => /\ Rank(ran[i - 1].prog) < Rank(ran[i].prog)
                      /\ ran[i - 1].res.type = "ok"
          /\ ran[i].prog = "reference" =>
                args.reference # NoPath /\ RanAs(1, "target", "ok")
          /\ ran[i].prog = "checker" =>
                /\ args.checker # NoPath /\ RanAs(1, "target", "ok")
                /\ args.reference # NoPath =>
                      /\ RanAs(2, "reference", "ok")
                      /\ ran[2].res.stdout = TargetOutput
    /\ (RanAs(1, "target", "ok") /\ RanAs(2, "reference", "ok")
            /\ ran[2].res.stdout # TargetOutput) =>
          /\ RaisedKind("AnswerMismatch")
          /\ Len(ran) = 2

C14_Witness ==
    /\ args.reference # NoPath /\ args.checker # NoPath
    /\ RanAs(1, "target", "ok") /\ RanAs(2, "reference", "ok")
    /\ ran[2].res.stdout # TargetOutput
    /\ Len(ran) = 2 /\ tpc = "idle"
    /\ RaisedKind("AnswerMismatch")

\* The target's step is over and the trial goes on.
PastTarget == tpc \in {"reference", "checker", "checking"}

\* C15: the elapsed time trial returns covers the target only.  Once the
\* target has returned, start and end are bound, end - start is the
\* target's duration, and neither changes while the reference and the
\* checker run, however far the clock moves; the value a trial returns
\* after them is end - start.
C15_ElapsedCoversTarget ==
    /\ [](PastTarget =>
            /\ Len(ran) >= 1 /\ ran[Len(ran)].prog # "checker"
            /\ start \in EntryTimes
            /\ end - start \in 0..MaxDur
            /\ end <= now
            /\ Len(ran) = 1 => now = end)
    /\ [][(PastTarget /\ tpc' # "idle") => (start' = start /\ end' = end)]_vars
    /\ [][(PastTarget /\ tpc' = "idle" /\ verdict'.type = "returned") =>
              verdict'.elapsed = end - start]_vars

\* The reference ran for the longest time, the target for none.
C15_Witness ==
    /\ tpc = "checking"
    /\ RanAs(2, "reference", "ok")
    /\ end = start /\ now = end + MaxDur

\* The step ends a trial.
TrialEnds == tpc # "idle" /\ tpc' = "idle"

\* C16: the statistics reflect the completed trials only.  A trial that
\* returns adds one to done and raises max_elapsed to its elapsed time when
\* that is larger; a trial that raises, and every other step, leaves both
\* as they are, so neither decreases; max_elapsed is 0 while no trial has
\* returned, and while no trial has raised done counts the trials begun
\* and ended.
C16_StatsCompletedTrials ==
    /\ [](/\ done >= 0
          /\ max_elapsed \in 0..MaxDur
          /\ done = 0 => max_elapsed = 0
          /\ falsifying = {} =>
                done = calls - (IF tpc # "idle" THEN 1 ELSE 0)
          /\ progress = IF done = 0 THEN <<>> ELSE <<done, max_elapsed>>)
    /\ [][IF TrialEnds /\ verdict'.type = "returned"
          THEN /\ done' = done + 1
               /\ max_elapsed' = IF verdict'.elapsed > max_elapsed
                                 THEN verdict'.elapsed ELSE max_elapsed
          ELSE done' = done /\ max_elapsed' = max_elapsed]_vars

\* Two trials returned, the longest after one tick, and the last trial raised.
C16_Witness ==
    /\ done = 2 /\ max_elapsed = 1
    /\ Raised /\ tpc = "idle"
    /\ progress = <<2, 1>>

\* C17: the checker's two temporary files exist only between their
\* creation and the end of the checker's step of one trial: none exists
\* when a trial has ended, however it ended (the checker accepted, exited
\* non-zero, could not be started, or the files could not be written), none
\* exists without a configured checker, and none before the target and
\* the configured reference have returned.
C17_TempFilesScoped ==
    /\ tpc # "checking" => tempfiles = {}
    /\ tempfiles # {} =>
          /\ args.checker # NoPath
          /\ tempfiles = {[suffix |-> ".in", content |-> input],
                          [suffix |-> ".out", content |-> TargetOutput]}
          /\ RanAs(1, "target", "ok")
          /\ args.reference # NoPath => RanAs(2, "reference", "ok")
          /\ ran[Len(ran)].prog # "checker"
    /\ CheckerRan => tempfiles = {}
    /\ (Raised /\ verdict.raw.kind = "OSError") => tempfiles = {}

C17_Witness ==
    /\ tpc = "idle" /\ CheckerRan
    /\ CheckerResult.type = "OSError"
    /\ RaisedKind("FailedCheckerError")
    /\ tempfiles = {}

\* The report of lines 174-184 for the failure e.
ReportOf(e) == <<<<"message", e.message>>>> \o PrintedLogs(e) \o <<Inventory(e)>>

\* C18: on a failure run prints one report, once: the failure's message,
\* then the log entries with content and no empty one, then the inventory
\* of the files; only then it writes the files and returns non-zero; no
\* failure raised by a trial leaves run as an uncaught exception instead.
C18_SingleReport ==
    /\ pc = "write" =>
          /\ printed = ReportOf(Handled)
          /\ \A i \in 1..Len(printed) : printed[i][1] = "log" => printed[i][3] # ""
          /\ cwd = EmptyMap /\ status = {}
    /\ (RunEnded /\ SomeTrialRaised) =>
          /\ pc = "done"
          /\ printed = ReportOf(Handled)
          /\ cwd = Handled.files
          /\ status = {1}
    /\ ~SomeTrialRaised => printed = <<>>

\* C19: capture_stdout restores the sink on every exit path of its scope,
\* whether the body completes or raises: sys.stdout names the sink of the
\* innermost open scope, and the original sink when no scope is open.
C19_StdoutRestored ==
    sys_stdout = IF scopes = <<>> THEN RealStdout
                                  ELSE scopes[Len(scopes)].out

\* C20: when every child process terminates and the number of cases is
\* bounded, run eventually returns: 0 after the cases are exhausted with no
\* failure, or 1 after a failure has been reported and its files written.
C20_RunReturns ==
    <>(\/ RunClean /\ ~SomeTrialRaised
       \/ RunFailed /\ printed # <<>> /\ "hypnofrog.in" \in DOMAIN cwd)

====
